---- MODULE Spec2Model ----
\* Model of the account-configuration store (CLIConfiguration), the HTTP
\* request-options builder, the zip-archive extractor, the usage tracker,
\* the GitHub repository cloner and the directory reader of
\* hubspot-local-dev-lib.
\*
\* JavaScript values are tagged records [t, n, s]; a string is the sequence of
\* its characters, so that /^\d+$/, /\s+/, parseInt and toLowerCase are
\* computed character by character.
EXTENDS Integers, Sequences, FiniteSets, TLC

VARIABLES
    options,       \* CLIConfiguration.options
    useEnvConfig,  \* CLIConfiguration.useEnvConfig
    config,        \* CLIConfiguration.config
    file,          \* the config file on disk
    environment,   \* what the process environment yields as a configuration
    last,          \* the call that produced the current state
    archive,       \* the run of extractZipArchive in progress
    track,         \* the trackUsage call in progress and its telemetry POST
    github,        \* the fetchReleaseData / cloneGithubRepo call in progress
    reader         \* the read(dir) call in progress and its lstat callbacks

vars == <<options, useEnvConfig, config, file, environment, last,
          archive, track, github, reader>>

-----------------------------------------------------------------------------
\* JavaScript values

Undef == [t |-> "undefined", n |-> 0, s |-> <<>>]
NullV == [t |-> "null", n |-> 0, s |-> <<>>]
NaN == [t |-> "NaN", n |-> 0, s |-> <<>>]
Num(k) == [t |-> "number", n |-> k, s |-> <<>>]
Str(chars) == [t |-> "string", n |-> 0, s |-> chars]
Bool(b) == [t |-> "boolean", n |-> IF b THEN 1 ELSE 0, s |-> <<>>]
Obj(k) == [t |-> "object", n |-> k, s |-> <<>>]

Truthy(v) ==
    \/ v.t = "number" /\ v.n # 0
    \/ v.t = "string" /\ v.s # <<>>
    \/ v.t = "boolean" /\ v.n = 1
    \/ v.t = "object"

Digits == {"0", "1", "2", "3", "4", "5", "6", "7", "8", "9"}

WhitespaceChars == {" "}

DigitVal(c) ==
    CASE c = "0" -> 0 [] c = "1" -> 1 [] c = "2" -> 2 [] c = "3" -> 3
      [] c = "4" -> 4 [] c = "5" -> 5 [] c = "6" -> 6 [] c = "7" -> 7
      [] c = "8" -> 8 [] c = "9" -> 9

LowerChar(c) ==
    CASE c = "A" -> "a" [] c = "D" -> "d" [] c = "F" -> "f" [] c = "R" -> "r"
      [] c = "T" -> "t" [] c = "Q" -> "q" [] OTHER -> c

toLowerCase(chars) == [i \in 1..Len(chars) |-> LowerChar(chars[i])]

\* /^\d+$/.test(s)
IsDigitString(chars) ==
    chars # <<>> /\ \A i \in 1..Len(chars) : chars[i] \in Digits

\* /\s+/.test(s)
HasWhitespace(chars) == \E i \in 1..Len(chars) : chars[i] \in WhitespaceChars

RECURSIVE DigitsValue(_, _)
DigitsValue(chars, acc) ==
    IF chars = <<>> THEN acc
    ELSE DigitsValue(Tail(chars), 10 * acc + DigitVal(Head(chars)))

RECURSIVE SkipWhitespace(_)
SkipWhitespace(chars) ==
    IF chars # <<>> /\ Head(chars) \in WhitespaceChars
    THEN SkipWhitespace(Tail(chars)) ELSE chars

RECURSIVE DigitPrefix(_)
DigitPrefix(chars) ==
    IF chars # <<>> /\ Head(chars) \in Digits
    THEN <<Head(chars)>> \o DigitPrefix(Tail(chars)) ELSE <<>>

HexDigits ==
    Digits \cup {"a", "b", "c", "d", "e", "f", "A", "B", "C", "D", "E", "F"}

HexVal(c) ==
    CASE c \in Digits -> DigitVal(c)
      [] c \in {"a", "A"} -> 10 [] c \in {"b", "B"} -> 11
      [] c \in {"c", "C"} -> 12 [] c \in {"d", "D"} -> 13
      [] c \in {"e", "E"} -> 14 [] c \in {"f", "F"} -> 15

RECURSIVE HexValue(_, _)
HexValue(chars, acc) ==
    IF chars = <<>> THEN acc
    ELSE HexValue(Tail(chars), 16 * acc + HexVal(Head(chars)))

RECURSIVE HexPrefix(_)
HexPrefix(chars) ==
    IF chars # <<>> /\ Head(chars) \in HexDigits
    THEN <<Head(chars)>> \o HexPrefix(Tail(chars)) ELSE <<>>

\* parseInt(string): leading whitespace is skipped, an optional sign is read,
\* then, after "0x" or "0X", the longest prefix of hexadecimal digits, and
\* otherwise the longest prefix of decimal digits; NaN when there is no digit.
parseInt(chars) ==
    LET t == SkipWhitespace(chars)
        neg == t # <<>> /\ Head(t) = "-"
        body == IF t # <<>> /\ Head(t) \in {"-", "+"} THEN Tail(t) ELSE t
        hex == Len(body) >= 2 /\ body[1] = "0" /\ body[2] \in {"x", "X"}
        ds == IF hex THEN HexPrefix(Tail(Tail(body))) ELSE DigitPrefix(body)
        n == IF hex THEN HexValue(ds, 0) ELSE DigitsValue(ds, 0)
    IN IF ds = <<>> THEN NaN
       ELSE Num(IF neg THEN 0 - n ELSE n)

-----------------------------------------------------------------------------
\* Constants of the library

S_draft == <<"d", "r", "a", "f", "t">>
S_publish == <<"p", "u", "b", "l", "i", "s", "h">>
S_apikey == <<"a", "p", "i", "k", "e", "y">>
S_pak == <<"p", "a", "k">>
S_qa == <<"q", "a">>

\* DEFAULT_MODES[key]
DEFAULT_MODES(key) ==
    IF key = S_draft THEN Str(S_draft)
    ELSE IF key = S_publish THEN Str(S_publish)
    ELSE Undef

ALL_MODES == {S_draft, S_publish}

API_KEY_AUTH_METHOD == Str(S_apikey)

MIN_HTTP_TIMEOUT == 3000

DefaultTimeout == 15000

\* Property names every plain object inherits from Object.prototype: a lookup
\* map[name] on an object literal finds them although they were never stored.
ObjectPrototypeKeys == {<<"v", "a", "l", "u", "e", "O", "f">>}

-----------------------------------------------------------------------------
\* Account and configuration records

NoAuth == [defined |-> FALSE, clientId |-> Undef, clientSecret |-> Undef,
           scopes |-> Undef, tokenInfo |-> Undef]

\* {} : an account object without any key
EmptyAccount ==
    [accountId |-> Undef, name |-> Undef, authType |-> Undef,
     apiKey |-> Undef, personalAccessKey |-> Undef,
     sandboxAccountType |-> Undef, parentAccountId |-> Undef,
     defaultMode |-> Undef, env |-> Undef, auth |-> NoAuth]

\* a null entry / a null result of getAccount
NullAccount == [isNull |-> TRUE]

Account(id, name) ==
    [EmptyAccount EXCEPT !.accountId = id, !.name = name]

\* updatedAccountFields without any key
NoFields ==
    [accountId |-> Undef, name |-> Undef, authType |-> Undef,
     apiKey |-> Undef, personalAccessKey |-> Undef,
     sandboxAccountType |-> Undef, parentAccountId |-> Undef,
     defaultMode |-> Undef, env |-> Undef, clientId |-> Undef,
     clientSecret |-> Undef, scopes |-> Undef, tokenInfo |-> Undef]

NullConfig == [isNull |-> TRUE]

\* { accounts: [] }
EmptyConfig ==
    [accounts |-> <<>>, isArray |-> TRUE, defaultAccount |-> Undef,
     defaultMode |-> Undef, httpTimeout |-> Undef,
     allowUsageTracking |-> Undef, httpUseLocalhost |-> Undef]

ConfigOf(accs) == [EmptyConfig EXCEPT !.accounts = accs]

\* Object.keys(config).length
KeyCount(c) ==
    Cardinality({k \in {"defaultAccount", "defaultMode", "httpTimeout",
                        "allowUsageTracking", "httpUseLocalhost"} :
                    c[k] # Undef})
    + (IF c.isArray THEN 1 ELSE 0)

-----------------------------------------------------------------------------
\* The config file and the environment

NoFile == [kind |-> "absent"]
BlankFile == [kind |-> "blank"]
FileOf(c) == [kind |-> "yaml", config |-> c]

configFileExists(f) == f.kind # "absent"
configFileIsBlank(f) == f.kind = "blank"
loadConfigFromFile(f) == IF f.kind = "yaml" THEN f.config ELSE NullConfig
writeConfigToFile(c) == FileOf(c)
deleteConfigFile == NoFile
loadConfigFromEnvironment == environment

\* getValidEnv(env, false): the QA environment, else the masked production value
getValidEnv(env) ==
    IF env.t = "string" /\ toLowerCase(env.s) = S_qa THEN Str(S_qa)
    ELSE Bool(FALSE)

-----------------------------------------------------------------------------
\* The CLIConfiguration object as a value: its fields, the file it writes, and
\* the number of file writes and deletions made during the current call.

Machine ==
    [options |-> options, useEnvConfig |-> useEnvConfig, config |-> config,
     file |-> file, writes |-> 0, deletes |-> 0]

\* a call that returned ret / a call that threw when the object was in state m
Result(m, ret) == [m |-> m, ret |-> ret, err |-> FALSE]
Throw(m) == [m |-> m, ret |-> Undef, err |-> TRUE]

NoOptions == [useEnv |-> FALSE]

\* load(): the object after the call (load returns its config)
load(m) ==
    IF m.options.useEnv
    THEN LET configFromEnv == loadConfigFromEnvironment
         IN IF configFromEnv # NullConfig
            THEN [m EXCEPT !.useEnvConfig = TRUE, !.config = configFromEnv]
            ELSE m
    ELSE LET configFromFile == loadConfigFromFile(m.file)
             m1 == IF configFromFile = NullConfig
                   THEN [m EXCEPT !.config = EmptyConfig]
                   ELSE m
         IN [m1 EXCEPT !.useEnvConfig = FALSE, !.config = configFromFile]

init(m, opts) == load([m EXCEPT !.options = opts])

configIsEmpty(m) ==
    IF ~configFileExists(m.file) \/ configFileIsBlank(m.file)
    THEN Result(m, Bool(TRUE))
    ELSE LET m1 == load(m)
         IN Result(m1, Bool(m1.config # NullConfig
                            /\ KeyCount(m1.config) = 1
                            /\ m1.config.isArray))

delete(m) ==
    IF m.useEnvConfig THEN Result(m, Undef)
    ELSE LET e == configIsEmpty(m)
         IN IF e.ret = Bool(TRUE)
            THEN Result([e.m EXCEPT !.file = deleteConfigFile,
                                    !.deletes = @ + 1,
                                    !.config = NullConfig], Undef)
            ELSE Result(e.m, Undef)

\* write that does not look at useEnvConfig
writeAlways(m, updatedConfig) ==
    LET m1 == IF updatedConfig # NullConfig
              THEN [m EXCEPT !.config = updatedConfig] ELSE m
        m2 == IF m1.config # NullConfig
              THEN [m1 EXCEPT !.file = writeConfigToFile(m1.config),
                              !.writes = @ + 1]
              ELSE m1
    IN Result(m2, m2.config)

\* write(updatedConfig?): NullConfig stands for a missing argument
write(m, updatedConfig) ==
    IF ~m.useEnvConfig
    THEN LET m1 == IF updatedConfig # NullConfig
                   THEN [m EXCEPT !.config = updatedConfig] ELSE m
             m2 == IF m1.config # NullConfig
                   THEN [m1 EXCEPT !.file = writeConfigToFile(m1.config),
                                   !.writes = @ + 1]
                   ELSE m1
         IN Result(m2, m2.config)
    ELSE Result(m, m.config)

\* accountNamesMap[name] on the object literal {} that holds the names seen
accountNamesMapGet(names, name) ==
    name \in names \/ name \in ObjectPrototypeKeys

\* the callback of accounts.every, from entry i on
RECURSIVE validateFrom(_, _, _, _)
validateFrom(accs, i, ids, names) ==
    IF i > Len(accs) THEN TRUE
    ELSE LET a == accs[i]
         IN IF a = NullAccount THEN FALSE
            ELSE IF ~Truthy(a.accountId) THEN FALSE
            ELSE IF a.accountId \in ids THEN FALSE
            ELSE IF Truthy(a.name)
                 THEN IF accountNamesMapGet(names, a.name.s) THEN FALSE
                      ELSE IF HasWhitespace(a.name.s) THEN FALSE
                      ELSE validateFrom(accs, i + 1, ids \cup {a.accountId},
                                        names \cup {a.name.s})
                 ELSE validateFrom(accs, i + 1, ids \cup {a.accountId}, names)

validate(c) ==
    IF c = NullConfig THEN FALSE
    ELSE IF ~c.isArray THEN FALSE
    ELSE validateFrom(c.accounts, 1, {}, {})

getDefaultAccount(c) ==
    IF c # NullConfig /\ Truthy(c.defaultAccount) THEN c.defaultAccount
    ELSE NullV

\* accounts.find(pred) || null, with pred given as the set of matching entries
FindFirst(accs, matching) ==
    IF \E i \in 1..Len(accs) : accs[i] \in matching
    THEN accs[CHOOSE i \in 1..Len(accs) :
                 /\ accs[i] \in matching
                 /\ \A j \in 1..(i - 1) : accs[j] \notin matching]
    ELSE NullAccount

getAccount(c, nameOrId) ==
    IF c = NullConfig THEN NullAccount
    ELSE LET nameOrIdToCheck ==
                 IF Truthy(nameOrId) THEN nameOrId ELSE getDefaultAccount(c)
             isId == nameOrIdToCheck.t = "number"
                     \/ IsDigitString(nameOrIdToCheck.s)
             accountId ==
                 IF nameOrIdToCheck.t = "number" THEN nameOrIdToCheck
                 ELSE Num(DigitsValue(nameOrIdToCheck.s, 0))
             accs == c.accounts
             range == {accs[i] : i \in 1..Len(accs)}
         IN IF ~Truthy(nameOrIdToCheck) THEN NullAccount
            ELSE IF ~isId
            THEN FindFirst(accs, {a \in range : a.name = nameOrIdToCheck})
            ELSE IF Truthy(accountId)
            THEN FindFirst(accs, {a \in range : a.accountId = accountId})
            ELSE NullAccount

getAccountId(c, nameOrId) ==
    LET account == getAccount(c, nameOrId)
    IN IF account # NullAccount THEN account.accountId ELSE NullV

\* findIndex, as the JavaScript index (0-based, -1 when absent)
getConfigAccountIndex(c, accountId) ==
    IF c # NullConfig /\ \E i \in 1..Len(c.accounts) :
                              c.accounts[i].accountId = accountId
    THEN (CHOOSE i \in 1..Len(c.accounts) :
             /\ c.accounts[i].accountId = accountId
             /\ \A j \in 1..(i - 1) : c.accounts[j].accountId # accountId) - 1
    ELSE -1

isAccountInConfig(c, nameOrId) ==
    c # NullConfig /\ Truthy(getAccountId(c, nameOrId))

getAndLoadConfigIfNeeded(m, opts) ==
    LET m1 == IF m.config = NullConfig THEN init(m, opts) ELSE m
    IN Result(m1, m1.config)

-----------------------------------------------------------------------------
\* Config update utilities

\* safelyApplyUpdates that lets an undefined value through
safelyApplyUpdatesAlways(next, fieldName, newValue) ==
    [next EXCEPT ![fieldName] = newValue]

\* safelyApplyUpdates(fieldName, newValue) applied to nextAccountConfig
safelyApplyUpdates(next, fieldName, newValue) ==
    IF newValue.t # "undefined"
    THEN [next EXCEPT ![fieldName] = newValue]
    ELSE next

\* the auth object built by updateAccount; NoAuth stands for undefined
updatedAuth(current, f) ==
    IF Truthy(f.clientId) \/ Truthy(f.clientSecret) \/ Truthy(f.scopes)
       \/ Truthy(f.tokenInfo)
    THEN [defined |-> TRUE, clientId |-> f.clientId,
          clientSecret |-> f.clientSecret, scopes |-> f.scopes,
          tokenInfo |-> f.tokenInfo]
    ELSE NoAuth

\* nextAccountConfig after all safelyApplyUpdates calls of updateAccount
completedAccountConfig(current, f) ==
    LET hasCurrent == current # NullAccount
        auth == updatedAuth(current, f)
        n0 == IF hasCurrent THEN current ELSE EmptyAccount
        updatedEnv ==
            getValidEnv(IF Truthy(f.env) THEN f.env
                        ELSE IF hasCurrent THEN current.env ELSE NullV)
        updatedDefaultMode ==
            IF Truthy(f.defaultMode) THEN Str(toLowerCase(f.defaultMode.s))
            ELSE f.defaultMode
        n1 == safelyApplyUpdates(n0, "name", f.name)
        n2 == safelyApplyUpdates(n1, "env", updatedEnv)
        n3 == safelyApplyUpdates(n2, "accountId", f.accountId)
        n4 == safelyApplyUpdates(n3, "authType", f.authType)
        n5 == IF auth.defined THEN [n4 EXCEPT !.auth = auth] ELSE n4
        n6 == IF n5.authType = API_KEY_AUTH_METHOD
              THEN safelyApplyUpdates(n5, "apiKey", f.apiKey) ELSE n5
        n7 == IF updatedDefaultMode.t # "undefined"
              THEN safelyApplyUpdates(n6, "defaultMode",
                                      DEFAULT_MODES(updatedDefaultMode.s))
              ELSE n6
        n8 == safelyApplyUpdates(n7, "personalAccessKey", f.personalAccessKey)
        n9 == safelyApplyUpdates(n8, "sandboxAccountType",
                                 f.sandboxAccountType)
    IN safelyApplyUpdates(n9, "parentAccountId", f.parentAccountId)

\* config.accounts after the "if (currentAccountConfig)" block of updateAccount
storeAccount(c, current, accountId, completed) ==
    IF current # NullAccount
    THEN LET index == getConfigAccountIndex(c, accountId)
         IN Append([c.accounts EXCEPT ![index + 1] = completed], completed)
    ELSE c.accounts

updateAccount(m, f, writeUpdate) ==
    IF ~Truthy(f.accountId) THEN Throw(m)
    ELSE IF m.config = NullConfig THEN Result(m, NullAccount)
    ELSE LET current == getAccount(m.config, f.accountId)
             completed == completedAccountConfig(current, f)
             m1 == [m EXCEPT !.config.accounts =
                        storeAccount(m.config, current, f.accountId, completed)]
             m2 == IF writeUpdate THEN write(m1, NullConfig).m ELSE m1
         IN Result(m2, completed)

\* updateDefaultAccount that assigns before it validates its argument
updateDefaultAccountAssignFirst(m, defaultAccount) ==
    IF m.config = NullConfig THEN Throw(m)
    ELSE LET m1 == [m EXCEPT !.config.defaultAccount = defaultAccount]
         IN IF ~Truthy(defaultAccount)
               \/ defaultAccount.t \notin {"number", "string"}
            THEN Throw(m1)
            ELSE write(m1, NullConfig)

updateDefaultAccount(m, defaultAccount) ==
    IF m.config = NullConfig THEN Throw(m)
    ELSE IF ~Truthy(defaultAccount)
            \/ defaultAccount.t \notin {"number", "string"}
    THEN Throw(m)
    ELSE write([m EXCEPT !.config.defaultAccount = defaultAccount], NullConfig)

renameAccount(m, currentName, newName) ==
    IF m.config = NullConfig THEN Throw(m)
    ELSE LET accountId == getAccountId(m.config, currentName)
             accountConfigToRename ==
                 IF Truthy(accountId) THEN getAccount(m.config, accountId)
                 ELSE NullAccount
         IN IF accountConfigToRename = NullAccount THEN Throw(m)
            ELSE LET u == updateAccount(
                              m, [NoFields EXCEPT !.accountId = accountId,
                                                  !.name = newName], TRUE)
                 IN IF accountConfigToRename.name
                          = getDefaultAccount(u.m.config)
                    THEN LET d == updateDefaultAccount(u.m, newName)
                         IN IF d.err THEN d ELSE Result(d.m, Undef)
                    ELSE Result(u.m, Undef)

removeAccountFromConfig(m, nameOrId) ==
    IF m.config = NullConfig THEN Throw(m)
    ELSE LET accountId == getAccountId(m.config, nameOrId)
         IN IF ~Truthy(accountId) THEN Throw(m)
            ELSE LET accountConfig == getAccount(m.config, accountId)
                 IN IF accountConfig # NullAccount
                    THEN LET index ==
                                 getConfigAccountIndex(m.config, accountId)
                             accs == m.config.accounts
                             m1 == [m EXCEPT !.config.accounts =
                                       SubSeq(accs, 1, index)
                                       \o SubSeq(accs, index + 2, Len(accs))]
                             removedAccountIsDefault ==
                                 getDefaultAccount(m1.config)
                                     = accountConfig.name
                         IN Result(write(m1, NullConfig).m,
                                   Bool(removedAccountIsDefault))
                    ELSE Result(m, Bool(FALSE))

updateDefaultMode(m, defaultMode) ==
    IF m.config = NullConfig THEN Throw(m)
    ELSE IF ~Truthy(defaultMode)
            \/ ~(defaultMode.t = "string" /\ defaultMode.s \in ALL_MODES)
    THEN Throw(m)
    ELSE write([m EXCEPT !.config.defaultMode = defaultMode], NullConfig)

\* updateHttpTimeout without the lower bound
updateHttpTimeoutUnbounded(m, timeout) ==
    IF m.config = NullConfig THEN Throw(m)
    ELSE LET parsedTimeout == parseInt(timeout.s)
         IN IF parsedTimeout = NaN THEN Throw(m)
            ELSE write([m EXCEPT !.config.httpTimeout = parsedTimeout],
                       NullConfig)

updateHttpTimeout(m, timeout) ==
    IF m.config = NullConfig THEN Throw(m)
    ELSE LET parsedTimeout == parseInt(timeout.s)
         IN IF parsedTimeout = NaN \/ parsedTimeout.n < MIN_HTTP_TIMEOUT
            THEN Throw(m)
            ELSE write([m EXCEPT !.config.httpTimeout = parsedTimeout],
                       NullConfig)

updateAllowUsageTracking(m, isEnabled) ==
    IF m.config = NullConfig THEN Throw(m)
    ELSE IF isEnabled.t # "boolean" THEN Throw(m)
    ELSE write([m EXCEPT !.config.allowUsageTracking = isEnabled], NullConfig)

-----------------------------------------------------------------------------
\* HTTP request options

\* getHubSpotApiOrigin(env, useLocalhost), kept as the pair it is computed from
getHubSpotApiOrigin(env, useLocalhost) ==
    [t |-> "origin", n |-> IF Truthy(useLocalhost) THEN 1 ELSE 0, s |-> env.s]

\* { ...defaults, ...overrides }: a key of overrides replaces the default's
Spread(defaults, overrides) ==
    [k \in DOMAIN defaults \cup DOMAIN overrides |->
        IF k \in DOMAIN overrides THEN overrides[k] ELSE defaults[k]]

\* getRequestOptions(options, requestOptions); destructuring a null config throws
getRequestOptions(m, opts, requestOptions) ==
    LET g == getAndLoadConfigIfNeeded(m, NoOptions)
    IN IF g.ret = NullConfig THEN Throw(g.m)
       ELSE LET httpTimeout == g.ret.httpTimeout
                httpUseLocalhost == g.ret.httpUseLocalhost
                defaults ==
                    [baseUrl |-> getHubSpotApiOrigin(
                                     opts.env,
                                     IF Truthy(opts.localHostOverride)
                                     THEN Bool(FALSE) ELSE httpUseLocalhost),
                     headers |-> Obj(1),
                     json |-> Bool(TRUE),
                     simple |-> Bool(TRUE),
                     timeout |-> IF Truthy(httpTimeout) THEN httpTimeout
                                 ELSE Num(DefaultTimeout)]
            IN Result(g.m, Spread(defaults, requestOptions))

-----------------------------------------------------------------------------
\* Bounds and inputs

\* config.accounts is kept to at most MaxAccounts entries
MaxAccounts == 3

S_a == <<"a">>
S_b == <<"b">>
S_c == <<"c">>
S_zz == <<"z", "z">>
S_DRAFT == <<"D", "R", "A", "F", "T">>
S_3000 == <<"3", "0", "0", "0">>
S_2999 == <<"2", "9", "9", "9">>
S_3000ms == <<" ", "3", "0", "0", "0", "m", "s">>
S_abc == <<"a", "b", "c">>
S_valueOf == <<"v", "a", "l", "u", "e", "O", "f">>
S_a_b == <<"a", " ", "b">>

Fields(id) == [NoFields EXCEPT !.accountId = id]

\* the configuration a user's file holds when the model starts
FileConfig ==
    [ConfigOf(<<Account(Num(1), Str(S_a)), Account(Num(2), Str(S_b))>>)
        EXCEPT !.defaultAccount = Str(S_a)]

\* the configuration built from the environment variables: one account
EnvConfig == ConfigOf(<<Account(Num(7), Undef)>>)

NoCall == [op |-> "new", args |-> <<>>, ret |-> Undef, err |-> FALSE,
           writes |-> 0, deletes |-> 0]

\* no extractZipArchive run has been started
ArchiveIdle ==
    [pc |-> "idle", awaiting |-> FALSE, zip |-> FALSE,
     includesRootDir |-> Undef, sourceDir |-> FALSE,
     tmpDir |-> FALSE, tmpZipPath |-> FALSE, extractDir |-> FALSE,
     srcDirPath |-> <<>>, success |-> FALSE, ret |-> "none", log |-> <<>>]

\* no trackUsage call has been made
TrackIdle ==
    [pc |-> "idle", posts |-> <<>>, calls |-> 0,
     call |-> [eventName |-> "", accountId |-> Undef]]

\* no GitHub call has been made
GithubIdle ==
    [pc |-> "idle", op |-> "none", repoPath |-> <<>>, dest |-> <<>>,
     isRelease |-> FALSE, tag |-> Undef, branch |-> Undef,
     sourceDir |-> Undef, calls |-> <<>>]

\* no read(dir) call has been made
ReaderIdle ==
    [pc |-> "idle", readdirFails |-> FALSE, entries |-> <<>>, infos |-> <<>>,
     promise |-> "pending", result |-> <<>>, uncaught |-> 0]

\* the state after "new CLIConfiguration()", before a file f and an
\* environment e
Constructed(f, e) ==
    /\ options = NoOptions
    /\ useEnvConfig = FALSE
    /\ config = NullConfig
    /\ file = f
    /\ environment = e
    /\ last = NoCall
    /\ archive = ArchiveIdle
    /\ track = TrackIdle
    /\ github = GithubIdle
    /\ reader = ReaderIdle

\* the object takes the state a call left it in, and the call is recorded
Apply(op, args, res) ==
    \E r \in {res} :
    /\ r.m.config # NullConfig => Len(r.m.config.accounts) <= MaxAccounts
    /\ options' = r.m.options
    /\ useEnvConfig' = r.m.useEnvConfig
    /\ config' = r.m.config
    /\ file' = r.m.file
    /\ last' = [op |-> op, args |-> args, ret |-> r.ret, err |-> r.err,
                writes |-> r.m.writes, deletes |-> r.m.deletes]
    /\ UNCHANGED <<environment, archive, track, github, reader>>

-----------------------------------------------------------------------------
\* Actions: one per public operation, its inputs drawn from the given sets

InitCall(Opts) ==
    \E o \in Opts :
        LET m == init(Machine, o) IN Apply("init", <<o>>, Result(m, Undef))

LoadCall == LET m == load(Machine) IN Apply("load", <<>>, Result(m, m.config))

DeleteCall == Apply("delete", <<>>, delete(Machine))

WriteCall(Configs) ==
    \E c \in Configs : Apply("write", <<c>>, write(Machine, c))

ValidateCall ==
    Apply("validate", <<>>, Result(Machine, Bool(validate(config))))

UpdateAccountCall(Updates, Flags) ==
    \E f \in Updates, w \in Flags :
        Apply("updateAccount", <<f, Bool(w)>>, updateAccount(Machine, f, w))

UpdateDefaultAccountCall(Defaults) ==
    \E d \in Defaults :
        Apply("updateDefaultAccount", <<d>>, updateDefaultAccount(Machine, d))

RenameAccountCall(Renames) ==
    \E r \in Renames :
        Apply("renameAccount", r, renameAccount(Machine, r[1], r[2]))

RemoveAccountCall(Names) ==
    \E x \in Names :
        Apply("removeAccountFromConfig", <<x>>,
              removeAccountFromConfig(Machine, x))

UpdateDefaultModeCall(Modes) ==
    \E d \in Modes :
        Apply("updateDefaultMode", <<d>>, updateDefaultMode(Machine, d))

UpdateHttpTimeoutCall(Timeouts) ==
    \E t \in Timeouts :
        Apply("updateHttpTimeout", <<t>>, updateHttpTimeout(Machine, t))

UpdateAllowUsageTrackingCall(Flags) ==
    \E b \in Flags :
        Apply("updateAllowUsageTracking", <<b>>,
              updateAllowUsageTracking(Machine, b))

GetRequestOptionsCall(Opts, RequestOpts) ==
    \E o \in Opts, ro \in RequestOpts :
        Apply("getRequestOptions", <<o, ro>>,
              getRequestOptions(Machine, o, ro))

-----------------------------------------------------------------------------------------------------------------------------------------------------
\* The account operations on a user's file

S_7 == <<"7">>

AccountUpdates ==
    {[Fields(Num(1)) EXCEPT !.name = Str(S_c)],
     [Fields(Num(3)) EXCEPT !.name = Str(S_c)],
     Fields(Num(2)),
     Fields(Undef)}

AccountDefaults == {Str(S_b), Num(2), Str(<<>>)}

AccountRenames == {<<Str(S_a), Str(S_c)>>, <<Str(S_b), Str(S_a)>>,
                   <<Str(S_c), Str(S_a_b)>>, <<Str(S_zz), Str(S_c)>>}

AccountNames == {Str(S_a), Num(2), Str(S_c), Str(S_zz), Str(<<>>)}

FileOnly == {[useEnv |-> FALSE]}

Init == \E f \in {NoFile, FileOf(FileConfig)} : Constructed(f, NullConfig)

Next ==
    \/ InitCall(FileOnly)
    \/ UpdateAccountCall(AccountUpdates, BOOLEAN)
    \/ UpdateDefaultAccountCall(AccountDefaults)
    \/ RenameAccountCall(AccountRenames)
    \/ RemoveAccountCall(AccountNames)

Spec == Init /\ [][Next]_vars

-----------------------------------------------------------------------------
\* Every mutator, valid and invalid arguments, on a user's file

MutatorUpdates == {[Fields(Num(1)) EXCEPT !.name = Str(S_c)], Fields(Num(3))}

MutatorDefaults == {Num(2), Str(<<>>), Bool(TRUE), Undef}

MutatorRenames == {<<Str(S_b), Str(S_c)>>, <<Str(S_zz), Str(S_c)>>,
                   <<Str(<<>>), Str(S_a)>>}

MutatorNames == {Str(S_a), Num(3), Str(<<>>)}

MutatorModes == {Str(S_draft), Str(S_DRAFT), Str(<<>>), Undef}

MutatorTimeouts == {Str(S_3000ms), Str(S_2999), Str(S_abc), Str(<<>>)}

MutatorFlags == {Bool(TRUE), Str(S_a), Undef}

InitMutators ==
    \E f \in {NoFile, FileOf(FileConfig)} : Constructed(f, NullConfig)

NextMutators ==
    \/ InitCall(FileOnly)
    \/ UpdateAccountCall(MutatorUpdates, BOOLEAN)
    \/ UpdateDefaultAccountCall(MutatorDefaults)
    \/ RenameAccountCall(MutatorRenames)
    \/ RemoveAccountCall(MutatorNames)
    \/ UpdateDefaultModeCall(MutatorModes)
    \/ UpdateHttpTimeoutCall(MutatorTimeouts)
    \/ UpdateAllowUsageTrackingCall(MutatorFlags)

SpecMutators == InitMutators /\ [][NextMutators]_vars

-----------------------------------------------------------------------------
\* Environment-sourced and file-sourced configuration

EnvUpdates == {[Fields(Num(7)) EXCEPT !.name = Str(S_c)]}

NoRequestOptions == [k \in {} |-> Undef]

EnvRequestOptions ==
    {NoRequestOptions, [timeout |-> Num(5)], [json |-> Bool(FALSE)]}

EnvOptions == {[env |-> Undef, localHostOverride |-> Undef]}

\* a file that sets httpTimeout
TimeoutConfig == [EmptyConfig EXCEPT !.httpTimeout = Num(4000)]

InitEnv ==
    \E f \in {NoFile, BlankFile, FileOf(TimeoutConfig)},
       e \in {NullConfig, EnvConfig} : Constructed(f, e)

NextEnv ==
    \/ InitCall({[useEnv |-> TRUE], [useEnv |-> FALSE]})
    \/ LoadCall
    \/ DeleteCall
    \/ WriteCall({NullConfig, EmptyConfig})
    \/ GetRequestOptionsCall(EnvOptions, EnvRequestOptions)
    \/ UpdateAccountCall(EnvUpdates, {TRUE})
    \/ UpdateDefaultAccountCall({Num(7)})
    \/ RenameAccountCall({<<Str(S_c), Str(S_a)>>})
    \/ RemoveAccountCall({Num(7)})
    \/ UpdateDefaultModeCall({Str(S_draft)})
    \/ UpdateHttpTimeoutCall({Str(S_3000)})
    \/ UpdateAllowUsageTrackingCall({Bool(TRUE)})

SpecEnv == InitEnv /\ [][NextEnv]_vars

-----------------------------------------------------------------------------
\* Claims on the account operations (specification Spec)

Loaded == config # NullConfig

AccountIndices == IF Loaded THEN 1..Len(config.accounts) ELSE {}

\* C1: no two records of config.accounts have the same accountId, after any
\* sequence of updateAccount, renameAccount and removeAccountFromConfig calls
\* on a loaded config whose accountIds were pairwise distinct.
C1_AccountIdsDistinct ==
    \A i, j \in AccountIndices :
        i # j => config.accounts[i].accountId # config.accounts[j].accountId

\* C2: no two account records (of different accounts) have the same name and
\* no name contains whitespace, after any sequence of renameAccount and
\* updateAccount calls on a loaded config that passed validate().
C2_AccountNamesValid ==
    /\ \A i, j \in AccountIndices :
          /\ config.accounts[i].accountId # config.accounts[j].accountId
          /\ Truthy(config.accounts[i].name)
          => config.accounts[i].name # config.accounts[j].name
    /\ \A i \in AccountIndices : ~HasWhitespace(config.accounts[i].name.s)

\* C4: updateAccount with an accountId that no record of the loaded config has
\* adds exactly one record with that accountId, and getAccount(accountId) then
\* returns the record updateAccount returned.
C4_NewAccountAdded ==
    [][(/\ last'.op = "updateAccount"
        /\ Loaded
        /\ Truthy(last'.args[1].accountId)
        /\ \A i \in AccountIndices :
              config.accounts[i].accountId # last'.args[1].accountId)
       => /\ ~last'.err
          /\ Len(config'.accounts) = Len(config.accounts) + 1
          /\ getAccount(config', last'.args[1].accountId) = last'.ret]_vars

-----------------------------------------------------------------------------
\* Claims on the mutators (specification SpecMutators)

WritingMutators ==
    {"updateDefaultAccount", "updateDefaultMode", "updateHttpTimeout",
     "updateAllowUsageTracking", "removeAccountFromConfig", "renameAccount"}

\* C8: on a file-sourced config, after every mutator call that completes
\* without an error (updateAccount with writeUpdate true included) the content
\* last written to the config file equals the in-memory config; updateAccount
\* with writeUpdate false puts its record into the in-memory config and writes
\* nothing.
C8_PersistenceConsistency ==
    (Loaded /\ ~useEnvConfig /\ ~last.err) =>
        /\ last.op \in WritingMutators
           => last.writes >= 1 /\ file = FileOf(config)
        /\ last.op = "updateAccount" /\ last.args[2] = Bool(TRUE)
           => last.writes = 1 /\ file = FileOf(config)
        /\ last.op = "updateAccount" /\ last.args[2] = Bool(FALSE)
           => /\ last.writes = 0
              /\ getAccount(config, last.args[1].accountId) = last.ret

\* the account a name-or-id argument designates (a missing or empty argument
\* designates the default account) has a record in config c
DesignatesAccount(c, nameOrId) ==
    LET x == IF Truthy(nameOrId) THEN nameOrId ELSE c.defaultAccount
    IN /\ Truthy(x)
       /\ \E i \in 1..Len(c.accounts) :
             \/ c.accounts[i].name = x
             \/ x.t = "number" /\ c.accounts[i].accountId = x
             \/ IsDigitString(x.s)
                /\ c.accounts[i].accountId = Num(DigitsValue(x.s, 0))

\* the argument of call (op, args) is one the operation must reject in config c
InvalidCall(c, op, args) ==
    \/ /\ op \in WritingMutators
       /\ c = NullConfig
    \/ /\ op = "updateDefaultAccount"
       /\ \/ args[1].t \notin {"number", "string"}
          \/ args[1] \in {Num(0), Str(<<>>)}
    \/ /\ op = "updateDefaultMode"
       /\ args[1].t # "string" \/ args[1].s \notin ALL_MODES
    \/ /\ op = "updateHttpTimeout"
       /\ \/ parseInt(args[1].s) = NaN
          \/ parseInt(args[1].s).n < MIN_HTTP_TIMEOUT
    \/ /\ op = "updateAllowUsageTracking"
       /\ args[1].t # "boolean"
    \/ /\ op \in {"renameAccount", "removeAccountFromConfig"}
       /\ c # NullConfig
       /\ ~DesignatesAccount(c, args[1])

\* C9: a mutator called without a loaded config or with an invalid argument
\* (or, for renameAccount and removeAccountFromConfig, an account that is not
\* in the config) raises an error, leaves the in-memory config unchanged and
\* writes nothing to the config file.
C9_ErrorsLeaveStoreUnchanged ==
    [][InvalidCall(config, last'.op, last'.args)
       => /\ last'.err
          /\ config' = config
          /\ file' = file
          /\ last'.writes = 0]_vars

\* a rename of an account the config does not hold was rejected
C9_Witness ==
    /\ last.op = "renameAccount"
    /\ last.err
    /\ Loaded
    /\ ~DesignatesAccount(config, last.args[1])

-----------------------------------------------------------------------------
\* Claims on environment- and file-sourced configuration (specification SpecEnv)

\* C6: while useEnvConfig is true no call writes or deletes the config file,
\* and write (with or without an argument) and delete leave the in-memory
\* config unchanged.
C6_EnvConfigNeverPersisted ==
    [][useEnvConfig
       => /\ file' = file
          /\ last'.writes = 0
          /\ last'.deletes = 0
          /\ last'.op \in {"write", "delete"} => config' = config]_vars

\* write(updatedConfig) was called on an environment-sourced configuration
C6_Witness ==
    /\ useEnvConfig
    /\ last.op = "write"
    /\ last.args[1] # NullConfig
    /\ config # last.args[1]

\* C7: after load() with options.useEnv unset and a config file that yields
\* no configuration, the in-memory config is the empty configuration (not
\* null) and useEnvConfig is false.
C7_LoadWithoutFileGivesEmptyConfig ==
    (/\ last.op \in {"load", "init"}
     /\ ~options.useEnv
     /\ loadConfigFromFile(file) = NullConfig)
    => config = EmptyConfig /\ ~useEnvConfig

\* C10: getRequestOptions returns options, also without a configuration file;
\* every key of requestOptions overrides the default, and without a timeout
\* key the timeout is the config's httpTimeout when set, otherwise 15000.
C10_RequestTimeoutPrecedence ==
    last.op = "getRequestOptions" =>
        /\ ~last.err
        /\ \A k \in DOMAIN last.args[2] : last.ret[k] = last.args[2][k]
        /\ "timeout" \notin DOMAIN last.args[2]
           => last.ret.timeout =
                 IF Truthy(config.httpTimeout) THEN config.httpTimeout
                 ELSE Num(15000)
        /\ DOMAIN last.ret
              = {"baseUrl", "headers", "json", "simple", "timeout"}
                \cup DOMAIN last.args[2]

-----------------------------------------------------------------------------
\* Partial updates of one existing account (specification SpecMerge)

S_k0 == <<"k", "0">>
S_k1 == <<"k", "1">>
S_old == <<"o", "l", "d">>
S_new == <<"n", "e", "w">>

\* an account that has every top-level field set
FullAccount(authType) ==
    [EmptyAccount EXCEPT
        !.accountId = Num(1), !.name = Str(S_a), !.authType = authType,
        !.apiKey = Str(S_k0), !.personalAccessKey = Str(S_old),
        !.sandboxAccountType = Str(S_old), !.parentAccountId = Num(9),
        !.defaultMode = Str(S_publish)]

S_oauth2 == <<"o", "a", "u", "t", "h", "2">>

\* an OAuth account that has every field of its auth set
OAuthAccount ==
    [FullAccount(Str(S_oauth2)) EXCEPT
        !.auth = [defined |-> TRUE, clientId |-> Str(S_old),
                  clientSecret |-> Str(S_old), scopes |-> Obj(3),
                  tokenInfo |-> Obj(4)]]

MergeFiles ==
    {FileOf(ConfigOf(<<a>>)) :
        a \in {Account(Num(1), Str(S_a)), FullAccount(Str(S_pak)),
               FullAccount(API_KEY_AUTH_METHOD), OAuthAccount}}

MergeUpdates ==
    {Fields(Num(1)),
     [Fields(Num(1)) EXCEPT !.name = Str(S_c)],
     [Fields(Num(1)) EXCEPT !.name = Str(<<>>)],
     [Fields(Num(1)) EXCEPT !.authType = API_KEY_AUTH_METHOD],
     [Fields(Num(1)) EXCEPT !.authType = Str(S_pak), !.apiKey = Str(S_k1)],
     [Fields(Num(1)) EXCEPT !.apiKey = Str(S_k1)],
     [Fields(Num(1)) EXCEPT !.personalAccessKey = Str(S_new)],
     [Fields(Num(1)) EXCEPT !.sandboxAccountType = Str(S_new)],
     [Fields(Num(1)) EXCEPT !.parentAccountId = Num(8)],
     [Fields(Num(1)) EXCEPT !.defaultMode = Str(S_draft)],
     [Fields(Num(1)) EXCEPT !.defaultMode = Str(S_DRAFT)],
     [Fields(Num(1)) EXCEPT !.defaultMode = Str(S_abc)],
     [Fields(Num(1)) EXCEPT !.defaultMode = Str(<<>>)],
     [Fields(Num(1)) EXCEPT !.env = Str(S_qa)],
     [Fields(Num(1)) EXCEPT !.tokenInfo = Obj(1)],
     [Fields(Num(1)) EXCEPT !.clientId = Str(S_c), !.scopes = Obj(2)]}

InitMerge == \E f \in MergeFiles : Constructed(f, NullConfig)

NextMerge ==
    \/ InitCall(FileOnly)
    \/ UpdateAccountCall(MergeUpdates, {TRUE})

SpecMerge == InitMerge /\ [][NextMerge]_vars

PlainFields ==
    {"name", "authType", "personalAccessKey", "sandboxAccountType",
     "parentAccountId"}

\* the call about to be recorded is an updateAccount for an account in config
UpdatesExisting ==
    /\ last'.op = "updateAccount"
    /\ Loaded
    /\ Truthy(last'.args[1].accountId)
    /\ \E i \in AccountIndices :
          config.accounts[i].accountId = last'.args[1].accountId

\* the record returned is stored, took every plain field that was given, and
\* kept every plain field that was not; apiKey is taken only under API-key auth
MergedPlainFields(f, cur, r) ==
    /\ ~last'.err
    /\ getAccount(config', f.accountId) = r
    /\ \A k \in PlainFields : r[k] = IF f[k] = Undef THEN cur[k] ELSE f[k]
    /\ r.apiKey = IF f.apiKey # Undef /\ r.authType = API_KEY_AUTH_METHOD
                  THEN f.apiKey ELSE cur.apiKey

\* C3 as stated: every top-level field given a defined value takes that value,
\* defaultMode included, and every other field keeps its value.
C3_MergeAsStated ==
    [][UpdatesExisting =>
        LET f == last'.args[1]
            cur == getAccount(config, f.accountId)
            r == last'.ret
        IN /\ MergedPlainFields(f, cur, r)
           /\ r.defaultMode = IF f.defaultMode = Undef THEN cur.defaultMode
                              ELSE f.defaultMode]_vars

\* C3: updateAccount on an existing account keeps every top-level field whose
\* update is undefined and gives every other field the update's value, where
\* defaultMode takes the DEFAULT_MODES entry of the lower-cased value when
\* there is one and keeps its previous value otherwise.
C3_PartialUpdateMerge ==
    [][UpdatesExisting =>
        LET f == last'.args[1]
            cur == getAccount(config, f.accountId)
            r == last'.ret
            lower == toLowerCase(f.defaultMode.s)
        IN /\ MergedPlainFields(f, cur, r)
           /\ r.defaultMode =
                 IF f.defaultMode.t = "string" /\ DEFAULT_MODES(lower) # Undef
                 THEN DEFAULT_MODES(lower) ELSE cur.defaultMode]_vars

\* an update that gave only defaultMode, in upper case, was merged into the
\* account that has every field set
C3_Witness ==
    /\ last.op = "updateAccount"
    /\ last.args[1] = [Fields(Num(1)) EXCEPT !.defaultMode = Str(S_DRAFT)]
    /\ Loaded
    /\ last.ret.defaultMode = Str(S_draft)
    /\ \A k \in PlainFields \cup {"apiKey"} :
          last.ret[k] = FullAccount(Str(S_pak))[k]
    /\ getAccount(config, Num(1)) = last.ret

-----------------------------------------------------------------------------
\* validate() on arbitrary file contents (specification SpecValidate)

\* the config.accounts lists validate() is given have at most MaxEntries entries
MaxEntries == 2

ValidateEntries ==
    {NullAccount, Account(Undef, Str(S_a)), Account(Num(1), Str(S_a)),
     Account(Num(1), Undef), Account(Num(2), Str(S_a)),
     Account(Num(2), Str(S_a_b)), Account(Num(2), Str(S_valueOf)),
     Account(Num(3), Str(S_b))}

ValidateConfigs ==
    {NullConfig, [EmptyConfig EXCEPT !.isArray = FALSE]}
    \cup {ConfigOf(accs) :
            accs \in UNION {[1..n -> ValidateEntries] : n \in 0..MaxEntries}}

InitValidate ==
    /\ options = NoOptions
    /\ useEnvConfig = FALSE
    /\ config \in ValidateConfigs
    /\ file = NoFile
    /\ environment = NullConfig
    /\ last = NoCall
    /\ archive = ArchiveIdle
    /\ track = TrackIdle
    /\ github = GithubIdle
    /\ reader = ReaderIdle

NextValidate == ValidateCall

SpecValidate == InitValidate /\ [][NextValidate]_vars

\* the conditions under which validate() is said to return true
ValidAsStated(c) ==
    /\ c # NullConfig
    /\ c.isArray
    /\ \A i \in 1..Len(c.accounts) : c.accounts[i] # NullAccount
    /\ \A i \in 1..Len(c.accounts) :
          LET a == c.accounts[i]
          IN /\ Truthy(a.accountId)
             /\ \A j \in 1..(i - 1) : c.accounts[j].accountId # a.accountId
             /\ Truthy(a.name)
                => /\ ~HasWhitespace(a.name.s)
                   /\ \A j \in 1..(i - 1) : c.accounts[j].name # a.name

\* C5: validate() returns true exactly when a config is loaded, accounts is a
\* list, and every record is non-empty, has a truthy accountId no earlier
\* record has and, if named, a name without whitespace that no earlier record
\* has; it never modifies the config.
C5_ValidateDecides ==
    [][last'.op = "validate"
       => /\ last'.ret = Bool(ValidAsStated(config))
          /\ config' = config]_vars

-----------------------------------------------------------------------------
\* extractZipArchive (lib/archive.ts): a run is a sequence of filesystem calls.
\* An awaited call takes two steps, its start and its settling (fulfilled or
\* rejected); a call that is not awaited is only requested.  archive.log holds
\* the events <<call, "start" | "ok" | "fail" | "request">> in order.

Logged(a, op, ev) == [a EXCEPT !.log = Append(@, <<op, ev>>)]

\* the run ends by raising the wrapped error
throwFileSystemError(a) == [a EXCEPT !.pc = "done", !.ret = "error"]

throwErrorWithMessage(a) == [a EXCEPT !.pc = "done", !.ret = "error"]

\* the awaited call of the current step is issued
Start(op) ==
    /\ archive.pc = op
    /\ ~archive.awaiting
    /\ archive' = [Logged(archive, op, "start") EXCEPT !.awaiting = TRUE]

\* the awaited call of the current step has settled
Settled(op, ok) ==
    [Logged(archive, op, IF ok THEN "ok" ELSE "fail") EXCEPT !.awaiting = FALSE]

\* extractZip: the catch block around mkdtemp, ensureFile and writeFile
writeCatch(a) ==
    IF a.tmpZipPath \/ a.tmpDir THEN throwFileSystemError(a)
    ELSE throwErrorWithMessage(a)

\* what lets a failed extraction go on to the copy
extractCatchSwallowed(a) == [a EXCEPT !.pc = "copySourceToDest"]

\* extractZip: the catch block around extract
extractCatch(a) == throwErrorWithMessage(a)

\* copySourceToDest: the catch block around readdir and copy
copyCatch(a) == throwFileSystemError(a)

\* a step of the archive run leaves everything else alone
ArchiveFrame ==
    UNCHANGED <<options, useEnvConfig, config, file, environment, last,
                track, github, reader>>

\* extractZipArchive(zip, name, dest, {sourceDir, includesRootDir})
ExtractZipArchiveCall(Zips, RootDirs, SourceDirs) ==
    \E z \in Zips, r \in RootDirs, sd \in SourceDirs :
        /\ archive.pc = "idle"
        /\ archive' =
              [ArchiveIdle EXCEPT !.zip = z, !.includesRootDir = r,
                                  !.sourceDir = sd,
                                  !.pc = IF z THEN "mkdtemp" ELSE "done",
                                  !.ret = IF z THEN "none" ELSE "false"]
        /\ ArchiveFrame

\* result.tmpDir = await fs.mkdtemp(...); tmpZipPath = join(result.tmpDir, ...)
Mkdtemp ==
    /\ \/ Start("mkdtemp")
       \/ /\ archive.pc = "mkdtemp" /\ archive.awaiting
          /\ \E ok \in BOOLEAN :
                archive' =
                   IF ok
                   THEN [Settled("mkdtemp", ok) EXCEPT !.tmpDir = TRUE,
                            !.tmpZipPath = TRUE, !.pc = "ensureFile"]
                   ELSE writeCatch(Settled("mkdtemp", ok))
    /\ ArchiveFrame

\* await fs.ensureFile(tmpZipPath)
EnsureFile ==
    /\ \/ Start("ensureFile")
       \/ /\ archive.pc = "ensureFile" /\ archive.awaiting
          /\ \E ok \in BOOLEAN :
                archive' =
                   IF ok
                   THEN [Settled("ensureFile", ok) EXCEPT !.pc = "writeFile"]
                   ELSE writeCatch(Settled("ensureFile", ok))
    /\ ArchiveFrame

\* await fs.writeFile(tmpZipPath, zip, ...)
WriteFile ==
    /\ \/ Start("writeFile")
       \/ /\ archive.pc = "writeFile" /\ archive.awaiting
          /\ \E ok \in BOOLEAN :
                archive' =
                   IF ok
                   THEN [Settled("writeFile", ok) EXCEPT !.pc = "extract"]
                   ELSE writeCatch(Settled("writeFile", ok))
    /\ ArchiveFrame

\* await extract(tmpZipPath, {dir: tmpExtractPath}); extractZip returns, and
\* extractZipArchive goes on to the copy since extractDir !== null
Extract ==
    /\ \/ Start("extract")
       \/ /\ archive.pc = "extract" /\ archive.awaiting
          /\ \E ok \in BOOLEAN :
                archive' =
                   IF ok
                   THEN [Settled("extract", ok) EXCEPT !.extractDir = TRUE,
                            !.pc = "copySourceToDest"]
                   ELSE extractCatch(Settled("extract", ok))
    /\ ArchiveFrame

\* srcDirPath.push(sourceDir) when a sourceDir is given
withSourceDir(a) ==
    IF a.sourceDir THEN [a EXCEPT !.srcDirPath = Append(@, "sourceDir")] ELSE a

\* copySourceToDest is entered: srcDirPath = [src]; includesRootDir defaults
\* to true
CopySourceToDest ==
    /\ archive.pc = "copySourceToDest"
    /\ LET a == [Logged(archive, "copySourceToDest", "start")
                    EXCEPT !.srcDirPath = <<"src">>]
           includesRootDir == IF archive.includesRootDir = Undef THEN TRUE
                              ELSE Truthy(archive.includesRootDir)
       IN archive' = IF includesRootDir THEN [a EXCEPT !.pc = "readdir"]
                     ELSE [withSourceDir(a) EXCEPT !.pc = "copy"]
    /\ ArchiveFrame

\* the copy is given up without copying: dest is left to fs.ensureDir
returnWithoutCopy(a) ==
    [Logged(Logged(a, "ensureDir", "request"), "copySourceToDest", "ok")
        EXCEPT !.success = TRUE, !.pc = "cleanup"]

\* const files = await fs.readdir(src); rootDir = files[0]
Readdir ==
    /\ \/ Start("readdir")
       \/ /\ archive.pc = "readdir" /\ archive.awaiting
          /\ \E ok \in BOOLEAN, rootDir \in BOOLEAN :
                archive' =
                   IF ~ok THEN copyCatch(Settled("readdir", ok))
                   ELSE IF ~rootDir
                   THEN returnWithoutCopy(Settled("readdir", ok))
                   ELSE [withSourceDir(
                            [Settled("readdir", ok)
                                EXCEPT !.srcDirPath = Append(@, "rootDir")])
                            EXCEPT !.pc = "copy"]
    /\ ArchiveFrame

\* await fs.copy(projectSrcDir, dest); return true
Copy ==
    /\ \/ Start("copy")
       \/ /\ archive.pc = "copy" /\ archive.awaiting
          /\ \E ok \in BOOLEAN :
                archive' =
                   IF ok
                   THEN [Logged(Settled("copy", ok), "copySourceToDest", "ok")
                            EXCEPT !.success = TRUE, !.pc = "cleanup"]
                   ELSE copyCatch(Settled("copy", ok))
    /\ ArchiveFrame

\* cleanupTempDir(tmpDir): fs.remove(tmpDir) is called and not awaited
cleanupTempDir(a) == IF ~a.tmpDir THEN a ELSE Logged(a, "remove", "request")

\* cleanupTempDir(tmpDir); return success
Cleanup ==
    /\ archive.pc = "cleanup"
    /\ archive' = [cleanupTempDir(archive) EXCEPT !.pc = "done",
                      !.ret = IF archive.success THEN "true" ELSE "false"]
    /\ ArchiveFrame

ArchiveZips == BOOLEAN
ArchiveRootDirs == {Undef, Bool(TRUE), Bool(FALSE)}
ArchiveSourceDirs == BOOLEAN

InitArchive == Constructed(NoFile, NullConfig)

NextArchive ==
    \/ ExtractZipArchiveCall(ArchiveZips, ArchiveRootDirs, ArchiveSourceDirs)
    \/ Mkdtemp
    \/ EnsureFile
    \/ WriteFile
    \/ Extract
    \/ CopySourceToDest
    \/ Readdir
    \/ Copy
    \/ Cleanup

SpecArchive == InitArchive /\ [][NextArchive]_vars

\* the position of an event in a log, 0 when it is not there
Pos(log, e) ==
    IF \E i \in 1..Len(log) : log[i] = e
    THEN CHOOSE i \in 1..Len(log) :
            log[i] = e /\ \A j \in 1..(i - 1) : log[j] # e
    ELSE 0

Occurrences(log, e) == Cardinality({i \in 1..Len(log) : log[i] = e})

\* each of the two events happens exactly once, the first before the second
Before(log, e1, e2) ==
    /\ Occurrences(log, e1) = 1
    /\ Occurrences(log, e2) = 1
    /\ Pos(log, e1) < Pos(log, e2)

C12_CleanupOnEveryPath ==
    archive.pc = "done" /\ archive.tmpDir
    => Occurrences(archive.log, <<"remove", "request">>) = 1

-----------------------------------------------------------------------------
\* trackUsage (lib/trackUsage.ts).  track.pc is the state of the promise the
\* call returned ("pending", "resolved" or "rejected"); track.posts holds the
\* telemetry requests sent so far, each "inflight", "ok" or "failed";
\* track.call holds the arguments of the latest call, the track.calls-th.

\* at most MaxPosts telemetry requests are sent in a run of the model
MaxPosts == 2

EVENT_TYPES ==
    [VSCODE_EXTENSION_INTERACTION |-> "vscode-extension-interaction",
     CLI_INTERACTION |-> "cli-interaction"]

\* the switch on eventName; `${analyticsEndpoint}` of no endpoint is
\* "undefined"
analyticsEndpoint(eventName) ==
    IF eventName = EVENT_TYPES.CLI_INTERACTION THEN "cms-cli-usage"
    ELSE IF eventName = EVENT_TYPES.VSCODE_EXTENSION_INTERACTION
    THEN "vscode-extension-usage"
    ELSE "undefined"

\* accountId && getAccountConfig(accountId)
getAccountConfig(c, accountId) ==
    IF Truthy(accountId) THEN getAccount(c, accountId) ELSE NullAccount

\* the request goes through http.post and its promise is returned
sendsAuthenticated(c, accountId) ==
    LET accountConfig == getAccountConfig(c, accountId)
    IN accountConfig # NullAccount /\ accountConfig.authType = Str(S_pak)

TrackFrame ==
    UNCHANGED <<options, useEnvConfig, config, file, environment, last,
                archive, github, reader>>

\* trackUsage(eventName, eventClass, meta, accountId), up to its return
TrackUsageCall(EventNames, AccountIds) ==
    \E eventName \in EventNames, accountId \in AccountIds :
        LET path == <<"FILE_MAPPER_API_PATH", analyticsEndpoint(eventName)>>
            authenticated == sendsAuthenticated(config, accountId)
            request ==
                [url |-> IF authenticated THEN Append(path, "authenticated")
                         ELSE path,
                 authenticated |-> authenticated,
                 accountId |-> accountId,
                 state |-> "inflight"]
        IN /\ track.pc # "pending"
           /\ Len(track.posts) < MaxPosts
           /\ track' = [pc |-> IF authenticated THEN "pending" ELSE "resolved",
                        posts |-> Append(track.posts, request),
                        calls |-> track.calls + 1,
                        call |-> [eventName |-> eventName,
                                  accountId |-> accountId]]
           /\ TrackFrame

\* the response to a telemetry POST arrives, or the request fails; the
\* promise of a call that returned it settles with it
PostSettles ==
    \E i \in 1..Len(track.posts), ok \in BOOLEAN :
        /\ track.posts[i].state = "inflight"
        /\ track' =
              [track EXCEPT
                  !.pc = IF track.pc = "pending" /\ i = Len(track.posts)
                         THEN (IF ok THEN "resolved" ELSE "rejected")
                         ELSE track.pc,
                  !.posts[i].state = IF ok THEN "ok" ELSE "failed"]
        /\ TrackFrame

TrackEvents == {"cli-interaction", "vscode-extension-interaction", "other"}
TrackAccountIds == {Undef, Num(1), Num(2), Num(9)}

TrackConfig ==
    ConfigOf(<<[Account(Num(1), Str(S_a)) EXCEPT !.authType = Str(S_pak)],
               [Account(Num(2), Str(S_b)) EXCEPT
                   !.authType = API_KEY_AUTH_METHOD]>>)

InitTrack == Constructed(FileOf(TrackConfig), NullConfig)

NextTrack ==
    \/ InitCall({NoOptions})
    \/ TrackUsageCall(TrackEvents, TrackAccountIds)
    \/ PostSettles

SpecTrack == InitTrack /\ [][NextTrack]_vars

\* C13: a call of trackUsage completes without waiting for the response to
\* its telemetry POST, and the failure of the POST never makes it fail,
\* whether the event is sent authenticated or not.
C13_FireAndForget == track.pc \notin {"pending", "rejected"}

-----------------------------------------------------------------------------
\* fetchReleaseData and cloneGithubRepo (lib/github.ts), as the tests of
\* lib/__tests__/github.ts describe them.  github.calls holds the calls made
\* to api/github and lib/archive, in order, for the call in progress.

Called(g, fn, args) ==
    [g EXCEPT !.calls = Append(@, [fn |-> fn, args |-> args])]

\* a tag that is passed on as given
tagAsGiven(tag) == tag

\* a non-empty tag gets a leading "v" when it has none
normalizeTag(tag) ==
    IF tag.t = "string" /\ tag.s # <<>> /\ tag.s[1] # "v"
    THEN Str(<<"v">> \o tag.s)
    ELSE tag

\* fetchReleaseData(repoPath, tag): fetchRepoReleaseData(repoPath, tag)
fetchReleaseData(g, repoPath, tag) ==
    Called(g, "fetchRepoReleaseData", <<repoPath, normalizeTag(tag)>>)

\* the whole path taken as the name
repoNameWithOwner(repoPath) == repoPath

\* the part of "owner/repo" after the owner
repoName(repoPath) ==
    LET slash == CHOOSE i \in 1..Len(repoPath) :
                    /\ repoPath[i] = "/"
                    /\ \A j \in 1..(i - 1) : repoPath[j] # "/"
    IN SubSeq(repoPath, slash + 1, Len(repoPath))

\* the zip of a release is at the zipball_url of its release data; the zip of
\* a branch is at the zipball URL of the repository, the branch name appended
zipUrl(g) ==
    IF g.isRelease THEN NullV
    ELSE Str(<<"r", "e", "p", "o", "s", "/">> \o g.repoPath
             \o <<"/", "z", "i", "p", "b", "a", "l", "l">>
             \o (IF Truthy(g.branch) THEN <<"/">> \o g.branch.s ELSE <<>>))

GithubFrame ==
    UNCHANGED <<options, useEnvConfig, config, file, environment, last,
                archive, track, reader>>

\* fetchReleaseData(repoPath, tag) called on its own
FetchReleaseDataCall(Repos, Tags) ==
    \E repoPath \in Repos, tag \in Tags :
        /\ github.pc \in {"idle", "done"}
        /\ github' =
              [fetchReleaseData([GithubIdle EXCEPT !.op = "fetchReleaseData",
                                    !.repoPath = repoPath, !.tag = tag],
                                repoPath, tag)
                  EXCEPT !.pc = "done"]
        /\ GithubFrame

\* cloneGithubRepo(repoPath, dest, {isRelease, tag, branch, sourceDir})
CloneGithubRepoCall(Repos, Dests, Releases, Tags, Branches, SourceDirs) ==
    \E repoPath \in Repos, dest \in Dests, isRelease \in Releases,
       tag \in Tags, branch \in Branches, sourceDir \in SourceDirs :
        /\ github.pc \in {"idle", "done"}
        /\ github' =
              [GithubIdle EXCEPT !.op = "cloneGithubRepo",
                  !.repoPath = repoPath, !.dest = dest,
                  !.isRelease = isRelease, !.tag = tag, !.branch = branch,
                  !.sourceDir = sourceDir,
                  !.pc = IF isRelease THEN "releaseData" ELSE "zip"]
        /\ GithubFrame

\* await fetchReleaseData(repoPath, tag), for a release only
CloneFetchReleaseData ==
    /\ github.pc = "releaseData"
    /\ github' = [fetchReleaseData(github, github.repoPath, github.tag)
                     EXCEPT !.pc = "zip"]
    /\ GithubFrame

\* const {data: zip} = await fetchRepoAsZip(zipUrl)
CloneFetchRepoAsZip ==
    /\ github.pc = "zip"
    /\ github' = [Called(github, "fetchRepoAsZip", <<zipUrl(github)>>)
                     EXCEPT !.pc = "extract"]
    /\ GithubFrame

\* await extractZipArchive(zip, repoName, dest, {sourceDir})
CloneExtractZipArchive ==
    /\ github.pc = "extract"
    /\ github' =
          [Called(github, "extractZipArchive",
                  <<"zip", repoName(github.repoPath), github.dest,
                    [sourceDir |-> github.sourceDir]>>)
              EXCEPT !.pc = "done"]
    /\ GithubFrame

S_v1 == <<"v", "1">>
S_1 == <<"1">>
S_x1 == <<"x", "1">>
GithubRepos == {<<"o", "/", "r">>, <<"o", "w", "/", "r", "e">>}
GithubDests == {<<".", "/", "d">>}
GithubTags == {Undef, Str(S_v1), Str(S_1), Str(S_x1)}
GithubBranches == {Undef, Str(S_b)}
GithubSourceDirs == {Undef, Str(S_c)}

InitGithub == Constructed(NoFile, NullConfig)

NextGithub ==
    \/ FetchReleaseDataCall(GithubRepos, GithubTags)
    \/ CloneGithubRepoCall(GithubRepos, GithubDests, BOOLEAN, GithubTags,
                           GithubBranches, GithubSourceDirs)
    \/ CloneFetchReleaseData
    \/ CloneFetchRepoAsZip
    \/ CloneExtractZipArchive

SpecGithub == InitGithub /\ [][NextGithub]_vars

\* the tag the release data is said to be requested with
TagAsStated(tag) ==
    IF tag = Undef THEN Undef
    ELSE IF Len(tag.s) > 0 /\ Head(tag.s) = "v" THEN tag
    ELSE Str(<<"v">> \o tag.s)

\* C14: fetchReleaseData(repo, tag) requests the release data of repo with
\* the tag as given when it begins with "v", with "v" put in front of any
\* other non-empty tag, and with undefined when no tag is given.
C14_ReleaseTagNormalised ==
    github.op = "fetchReleaseData" /\ github.pc = "done"
    => github.calls =
          <<[fn |-> "fetchRepoReleaseData",
             args |-> <<github.repoPath, TagAsStated(github.tag)>>]>>

\* the release data was requested for a tag that had no leading "v"
C14_Witness ==
    /\ github.op = "fetchReleaseData" /\ github.pc = "done"
    /\ github.tag = Str(S_1)
    /\ github.calls[1].args[2] = Str(S_v1)

\* String.prototype.includes
Includes(s, sub) ==
    \E k \in 0..(Len(s) - Len(sub)) : SubSeq(s, k + 1, k + Len(sub)) = sub

\* the repository name of "owner/name"
NameAsStated(repoPath) ==
    CHOOSE name \in {SubSeq(repoPath, k, Len(repoPath)) :
                        k \in 1..(Len(repoPath) + 1)} :
        \E owner \in {SubSeq(repoPath, 1, k) : k \in 0..Len(repoPath)} :
            /\ repoPath = owner \o <<"/">> \o name
            /\ \A j \in 1..Len(owner) : owner[j] # "/"

\* C15: cloneGithubRepo requests release data exactly for a release, with
\* the tag of its options; it then downloads the zip, from a URL that has the
\* branch name in it for a clone of a named branch, and only after that calls
\* extractZipArchive, once, with the zip, the repository name, dest and
\* {sourceDir}.
C15_CloneCallSequence ==
    github.op = "cloneGithubRepo"
    => LET calls == github.calls
           n == IF github.isRelease THEN 1 ELSE 0
       IN /\ Len(calls) <= n + 2
          /\ github.pc = "done" => Len(calls) = n + 2
          /\ \A i \in 1..Len(calls) :
                IF i <= n
                THEN calls[i] = [fn |-> "fetchRepoReleaseData",
                                 args |-> <<github.repoPath,
                                            TagAsStated(github.tag)>>]
                ELSE IF i = n + 1
                THEN /\ calls[i].fn = "fetchRepoAsZip"
                     /\ ~github.isRelease /\ Truthy(github.branch)
                        => Includes(calls[i].args[1].s, github.branch.s)
                ELSE calls[i] =
                        [fn |-> "extractZipArchive",
                         args |-> <<"zip", NameAsStated(github.repoPath),
                                    github.dest,
                                    [sourceDir |-> github.sourceDir]>>]

\* a release was cloned: release data, then the zip, then the extraction
C15_Witness ==
    /\ github.op = "cloneGithubRepo" /\ github.pc = "done"
    /\ github.isRelease /\ github.tag = Str(S_v1)
    /\ Len(github.calls) = 3
    /\ github.calls[3].fn = "extractZipArchive"

-----------------------------------------------------------------------------
\* Claims on the nested auth object (specification SpecMerge)

AuthFields == {"clientId", "clientSecret", "scopes", "tokenInfo"}

\* C16: updateAccount on an existing account that has an auth object keeps,
\* in the stored record's auth, the previous value of each of clientId,
\* clientSecret, scopes and tokenInfo that the update does not provide.
C16_AuthMergeKeepsMissing ==
    [][UpdatesExisting /\ ~last'.err
       => LET f == last'.args[1]
              cur == getAccount(config, f.accountId)
              stored == getAccount(config', f.accountId)
          IN cur.auth.defined
             => /\ stored # NullAccount
                /\ stored.auth.defined
                /\ \A k \in AuthFields :
                      f[k] = Undef => stored.auth[k] = cur.auth[k]]_vars

-----------------------------------------------------------------------------
\* Claims on renaming, removal and the default account (specification Spec)

\* the records of c.accounts whose accountId is not id
OtherRecords(c, id) ==
    {c.accounts[i] : i \in {j \in 1..Len(c.accounts) :
                               c.accounts[j].accountId # id}}

\* C17: renameAccount(currentName, newName) on an account of the config:
\* afterwards getAccount(newName) is a record with the accountId the account
\* had, getAccount(currentName) is null, the records of the other accounts
\* are unchanged, and defaultAccount is newName if it was the old name and
\* unchanged otherwise.
C17_RenameAccount ==
    [][/\ last'.op = "renameAccount"
       /\ Loaded
       /\ getAccount(config, last'.args[1]) # NullAccount
       => LET currentName == last'.args[1]
              newName == last'.args[2]
              renamed == getAccount(config, currentName)
          IN /\ ~last'.err
             /\ getAccount(config', newName) # NullAccount
             /\ getAccountId(config', newName) = renamed.accountId
             /\ getAccount(config', currentName) = NullAccount
             /\ OtherRecords(config', renamed.accountId)
                   = OtherRecords(config, renamed.accountId)
             /\ config'.defaultAccount =
                   IF config.defaultAccount = renamed.name THEN newName
                   ELSE config.defaultAccount]_vars

\* C18: after removeAccountFromConfig(x) has returned, whatever updateAccount
\* and renameAccount calls came before it, isAccountInConfig(x) is false,
\* getAccount(x) is null and every record of another account is still there.
C18_RemovalEffective ==
    [][/\ last'.op = "removeAccountFromConfig"
       /\ ~last'.err
       /\ Loaded
       => LET x == last'.args[1]
              accountId == getAccountId(config, x)
          IN /\ ~isAccountInConfig(config', x)
             /\ getAccount(config', x) = NullAccount
             /\ OtherRecords(config, accountId)
                   \subseteq OtherRecords(config', accountId)]_vars

\* C19: removeAccountFromConfig returns true exactly when the account it
\* removed was the one config.defaultAccount designated, by name or by
\* accountId.
C19_RemoveReportsDefault ==
    [][/\ last'.op = "removeAccountFromConfig"
       /\ ~last'.err
       /\ Loaded
       => LET accountId == getAccountId(config, last'.args[1])
              wasDefault ==
                  /\ Truthy(config.defaultAccount)
                  /\ getAccountId(config, config.defaultAccount) = accountId
          IN last'.ret = Bool(wasDefault)]_vars

\* C20: whenever config.defaultAccount is set, getAccount of it is a record
\* of config.accounts.
C20_DefaultAccountExists ==
    Loaded /\ Truthy(config.defaultAccount)
    => \E i \in AccountIndices :
          getAccount(config, config.defaultAccount) = config.accounts[i]

-----------------------------------------------------------------------------
\* updateHttpTimeout on a file-sourced config (specification SpecTimeout)

S_4000 == <<"4", "0", "0", "0">>
S_03001 == <<"0", "3", "0", "0", "1">>
S_minus3000 == <<"-", "3", "0", "0", "0">>
S_plus3002 == <<"+", "3", "0", "0", "2">>
S_3e3 == <<"3", "e", "3">>
S_0xBB8 == <<"0", "x", "B", "B", "8">>
S_0xbb7 == <<"0", "X", "b", "b", "7">>
S_0x == <<"0", "x">>

TimeoutInputs ==
    {Str(S_3000), Str(S_2999), Str(S_4000), Str(S_3000ms), Str(S_03001),
     Str(S_minus3000), Str(S_plus3002), Str(S_3e3), Str(S_0xBB8),
     Str(S_0xbb7), Str(S_0x), Str(S_abc), Str(<<>>)}

\* the files hold no httpTimeout or one that is not below MIN_HTTP_TIMEOUT
TimeoutFiles ==
    {NoFile, FileOf(EmptyConfig), FileOf(TimeoutConfig),
     FileOf([EmptyConfig EXCEPT !.httpTimeout = Num(MIN_HTTP_TIMEOUT)]),
     FileOf([EmptyConfig EXCEPT !.httpTimeout = Num(DefaultTimeout)])}

InitTimeout == \E f \in TimeoutFiles : Constructed(f, NullConfig)

NextTimeout ==
    \/ InitCall(FileOnly)
    \/ UpdateHttpTimeoutCall(TimeoutInputs)

SpecTimeout == InitTimeout /\ [][NextTimeout]_vars

\* C21: on a loaded config updateHttpTimeout(t) succeeds exactly when
\* parseInt(t) is an integer that is at least MIN_HTTP_TIMEOUT, and then
\* config.httpTimeout is that integer; a failing call leaves the config as it
\* was; config.httpTimeout, once set, is never below MIN_HTTP_TIMEOUT.
C21_HttpTimeoutLowerBound ==
    [][/\ last'.op = "updateHttpTimeout" /\ Loaded
          => LET parsed == parseInt(last'.args[1].s)
                 accepted == parsed # NaN /\ parsed.n >= MIN_HTTP_TIMEOUT
             IN /\ ~last'.err <=> accepted
                /\ accepted => config'.httpTimeout = parsed
                /\ ~accepted => config' = config
       /\ config' # NullConfig /\ config'.httpTimeout # Undef
          => /\ config'.httpTimeout.t = "number"
             /\ config'.httpTimeout.n >= MIN_HTTP_TIMEOUT]_vars

\* a hexadecimal timeout was accepted and stored as its value, 3000
C21_Witness ==
    /\ last.op = "updateHttpTimeout" /\ ~last.err
    /\ last.args[1] = Str(S_0xBB8)
    /\ Loaded
    /\ config.httpTimeout = Num(3000)
    /\ file = FileOf(config)

-----------------------------------------------------------------------------
\* Claims on the telemetry requests (specification SpecTrack)

\* accountId names an account of the config with personal-access-key auth
NamesPersonalAccessKeyAccount(accountId) ==
    /\ Loaded
    /\ \E i \in AccountIndices :
          /\ config.accounts[i].accountId = accountId
          /\ config.accounts[i].authType = Str(S_pak)

\* C22: a call of trackUsage sends exactly one telemetry POST, to the
\* cms-cli-usage endpoint for "cli-interaction" and to the
\* vscode-extension-usage endpoint for "vscode-extension-interaction", with
\* "authenticated" appended exactly when accountId names an account with
\* personal-access-key auth; for any other eventName it sends nothing.
C22_EndpointSelection ==
    [][track'.calls = track.calls + 1
       => LET eventName == track'.call.eventName
              endpoint ==
                  IF eventName = "cli-interaction" THEN "cms-cli-usage"
                  ELSE "vscode-extension-usage"
              url == <<"FILE_MAPPER_API_PATH", endpoint>>
                     \o (IF NamesPersonalAccessKeyAccount(
                                track'.call.accountId)
                         THEN <<"authenticated">> ELSE <<>>)
          IN IF eventName \in {"cli-interaction",
                               "vscode-extension-interaction"}
             THEN /\ Len(track'.posts) = Len(track.posts) + 1
                  /\ SubSeq(track'.posts, 1, Len(track.posts)) = track.posts
                  /\ track'.posts[Len(track'.posts)].url = url
             ELSE track'.posts = track.posts]_vars

-----------------------------------------------------------------------------
\* read(dir), getFileInfoAsync and flattenAndRemoveSymlinks.  reader.entries
\* is what the directory holds: for each entry what lstat says of it, "error"
\* when lstat fails.  reader.infos holds, for each entry, the promise of
\* getFileInfoAsync: its state, how many times resolve or reject was called
\* on it, and whether the callback used stats when there was none.

\* a directory listed by read has at most MaxDirEntries entries
MaxDirEntries == 2

STAT_TYPES ==
    [FILE |-> "file", DIRECTORY |-> "directory",
     SYMBOLIC_LINK |-> "symlink"]

NoFileData == [filepath |-> 0, type |-> "none", files |-> <<>>]

PendingInfo ==
    [state |-> "pending", settles |-> 0, called |-> FALSE,
     statsUsedUndefined |-> FALSE, data |-> NoFileData]

\* the callback of fs.lstat for entry i, lstat having succeeded: the type is
\* read off stats and the promise is resolved with {filepath, type}
lstatSucceeded(i, kind) ==
    [state |-> "fulfilled", settles |-> 1, called |-> TRUE,
     statsUsedUndefined |-> FALSE,
     data |-> [filepath |-> i,
               type |-> IF kind = "symlink" THEN STAT_TYPES.SYMBOLIC_LINK
                        ELSE IF kind = "directory" THEN STAT_TYPES.DIRECTORY
                        ELSE STAT_TYPES.FILE,
               files |-> <<>>]]

\* the callback of fs.lstat for entry i, lstat having failed: reject(error),
\* then stats.isSymbolicLink() on the undefined stats throws a TypeError out
\* of the callback, so resolve is not reached
lstatFailed(i) ==
    [state |-> "rejected", settles |-> 1, called |-> TRUE,
     statsUsedUndefined |-> TRUE, data |-> NoFileData]

RECURSIVE flattenAndRemoveSymlinks(_)
flattenAndRemoveSymlinks(filesData) ==
    IF filesData = <<>> THEN <<>>
    ELSE LET acc == flattenAndRemoveSymlinks(
                       SubSeq(filesData, 1, Len(filesData) - 1))
             fileData == filesData[Len(filesData)]
         IN IF fileData.type = STAT_TYPES.FILE
            THEN Append(acc, fileData.filepath)
            ELSE IF fileData.type = STAT_TYPES.DIRECTORY
            THEN acc \o fileData.files
            ELSE acc

ReadFrame ==
    UNCHANGED <<options, useEnvConfig, config, file, environment, last,
                archive, track, github>>

\* read(dir): fs.promises.readdir(dir) is issued
ReadCall(Listings) ==
    \E l \in Listings :
        /\ reader.pc = "idle"
        /\ reader' = [ReaderIdle EXCEPT !.pc = "readdir",
                         !.readdirFails = l.fails, !.entries = l.entries]
        /\ ReadFrame

\* readdir settles: on failure the catch handler returns []; otherwise
\* processFiles calls getFileInfoAsync for every entry
ReaddirSettles ==
    /\ reader.pc = "readdir"
    /\ reader' =
          IF reader.readdirFails
          THEN [reader EXCEPT !.pc = "done", !.promise = "resolved",
                              !.result = <<>>]
          ELSE [reader EXCEPT !.pc = "lstat",
                   !.infos = [i \in 1..Len(reader.entries) |-> PendingInfo]]
    /\ ReadFrame

\* the callback of one fs.lstat runs.  The TypeError a failed lstat ends in
\* is an uncaught exception: the process exits on it, or goes on when an
\* uncaughtException handler is installed
LstatCallback ==
    \E i \in 1..Len(reader.infos), exits \in BOOLEAN :
        /\ reader.pc \in {"lstat", "done"}
        /\ ~reader.infos[i].called
        /\ reader' =
              IF reader.entries[i] = "error"
              THEN LET info == lstatFailed(i)
                       thrown == info.statsUsedUndefined
                   IN [reader EXCEPT
                          !.infos[i] = info,
                          !.uncaught = IF thrown THEN @ + 1 ELSE @,
                          !.pc = IF thrown /\ exits THEN "exited" ELSE @]
              ELSE [reader EXCEPT
                       !.infos[i] = lstatSucceeded(i, reader.entries[i])]
        /\ ReadFrame

\* Promise.all settles: rejected with the first rejection, which the catch
\* handler turns into []; fulfilled when every promise is, and then
\* flattenAndRemoveSymlinks gives the result
ReadSettles ==
    /\ reader.pc = "lstat"
    /\ LET infos == reader.infos
           rejected == \E i \in 1..Len(infos) : infos[i].state = "rejected"
           fulfilled == \A i \in 1..Len(infos) : infos[i].state = "fulfilled"
       IN /\ rejected \/ fulfilled
          /\ reader' =
                [reader EXCEPT !.pc = "done", !.promise = "resolved",
                    !.result =
                       IF rejected THEN <<>>
                       ELSE flattenAndRemoveSymlinks(
                               [i \in 1..Len(infos) |-> infos[i].data])]
    /\ ReadFrame

EntryKinds == {"file", "directory", "symlink", "error"}

ReadListings ==
    {[fails |-> TRUE, entries |-> <<>>]}
    \cup {[fails |-> FALSE, entries |-> e] :
            e \in UNION {[1..n -> EntryKinds] : n \in 0..MaxDirEntries}}

InitRead == Constructed(NoFile, NullConfig)

NextRead ==
    \/ ReadCall(ReadListings)
    \/ ReaddirSettles
    \/ LstatCallback
    \/ ReadSettles

SpecRead == InitRead /\ [][NextRead]_vars

\* the paths of the entries that are regular files, in the listed order
RECURSIVE RegularFiles(_, _)
RegularFiles(entries, i) ==
    IF i > Len(entries) THEN <<>>
    ELSE (IF entries[i] = "file" THEN <<i>> ELSE <<>>)
         \o RegularFiles(entries, i + 1)

\* C23: read(dir) never rejects and raises nothing; it resolves to [] when
\* the listing or an lstat fails and otherwise to the paths of the regular
\* files (a directory adds the files listed in its file data, a symbolic
\* link nothing); a failed lstat settles the getFileInfoAsync promise exactly
\* once, as a rejection, and the missing stats are not used.
C23_ReadErrorHandling ==
    /\ reader.promise # "rejected"
    /\ reader.uncaught = 0
    /\ reader.pc # "exited"
    /\ reader.pc = "done"
       => reader.result =
             IF reader.readdirFails
                \/ \E i \in 1..Len(reader.infos) :
                      reader.infos[i].state = "rejected"
             THEN <<>>
             ELSE RegularFiles(reader.entries, 1)
    /\ \A k \in 1..Len(reader.result) :
          reader.entries[reader.result[k]] # "symlink"
    /\ \A i \in 1..Len(reader.infos) :
          /\ reader.infos[i].settles <= 1
          /\ reader.infos[i].called /\ reader.entries[i] = "error"
             => /\ reader.infos[i].state = "rejected"
                /\ reader.infos[i].settles = 1
                /\ ~reader.infos[i].statsUsedUndefined

====
